---- MODULE Spec2Model ----
(***************************************************************************)
(* Model of the content-based recommendation engine of                     *)
(* src/src/recommendation_engine.py: the content vectorizer                *)
(* (_create_content_string), the similarity-matrix build                   *)
(* (create_similarity_matrix) and the ranker (get_recommendations).        *)
(*                                                                         *)
(* Conventions                                                             *)
(*  - A DataFrame is a sequence of rows [label, title, genres, year,       *)
(*    averageRating, numVotes]; the position in the sequence is what       *)
(*    .iloc addresses, `label` is the pandas index label that iterrows()   *)
(*    yields.  Python positions 0..n-1 are written 1..n here, and so are   *)
(*    the labels of a freshly loaded catalog (data_loader resets the       *)
(*    index), so "label = position" here is "label = position" there.      *)
(*  - NaN of a numeric column is the value NaN (-1); a genres cell that is *)
(*    NaN or '' is the empty set (both yield no genre in every use).       *)
(*  - Floats are fixed point: a cosine similarity is an integer number of  *)
(*    thousandths (CosScale = 1.0), a final score an integer number of     *)
(*    1e-8 units, which represents every weighted bonus term exactly.      *)
(*  - A query string is known to the model by what the code reads of it:   *)
(*    whether strip() leaves anything, and the confidence the fuzzy        *)
(*    matcher gives it against each title.                                 *)
(***************************************************************************)
EXTENDS Integers, Sequences, FiniteSets, TLC

\* ------------------------------------------------------------------ bounds
MaxCorpus == 3              \* rows of the catalog handed to the build
MaxRecommendations == 3     \* largest max_recommendations a caller asks for
SmallCap == 3               \* a vocabulary cap small enough to bite on MaxCorpus rows
MemoCap == 2                \* entries the query memo holds, scaled down from lru_maxsize
MaxCalls == 4               \* find_similar_movies calls followed per process start
MaxStartups == 2            \* process starts followed

\* ------------------------------------------------------- program constants
max_features == 5000        \* CountVectorizer(max_features=5000)
min_similarity == 70        \* get_recommendations(min_similarity=70)
NaN == -1
CosScale == 1000            \* fixed-point 1.0 of a cosine similarity
lru_maxsize == 1000         \* @lru_cache(maxsize=1000)

Titles == {"A", "B"}

\* The vocabulary caps a build is run with: the deployed one, and one scaled
\* down to the size of the corpora explored here.
FeatureCaps == {SmallCap, max_features}

\* --------------------------------------------------------------- catalog
\* Attribute profiles of catalog rows (genres, year, averageRating in tenths,
\* numVotes): two full rows that share their decade, a row whose content is
\* the single token 'popular', and a row whose content string is empty.
Profiles ==
  { [genres |-> {"Action"}, year |-> 2000, averageRating |-> 80, numVotes |-> 200000],
    [genres |-> {"Drama", "Mystery", "Thriller"}, year |-> 2005,
       averageRating |-> 60, numVotes |-> 60000],
    [genres |-> {}, year |-> NaN, averageRating |-> NaN, numVotes |-> 60000],
    [genres |-> {}, year |-> NaN, averageRating |-> NaN, numVotes |-> NaN] }

Item(t, p) ==
  [title |-> t, genres |-> p.genres, year |-> p.year,
   averageRating |-> p.averageRating, numVotes |-> p.numVotes]

Items == { Item(t, p) : t \in Titles, p \in Profiles }

Catalogs == UNION { [1..n -> Items] : n \in 0..MaxCorpus }

\* A freshly loaded frame: row k carries index label k.
WithLabel(it, l) ==
  [label |-> l, title |-> it.title, genres |-> it.genres, year |-> it.year,
   averageRating |-> it.averageRating, numVotes |-> it.numVotes]

Frame(cat) == [k \in 1..Len(cat) |-> WithLabel(cat[k], k)]

notna(x) == x # NaN


\* ------------------------------------------------------ generic helpers
RECURSIVE SeqOfSet(_)
SeqOfSet(S) ==
  IF S = {} THEN << >>
  ELSE LET x == CHOOSE y \in S : TRUE IN <<x>> \o SeqOfSet(S \ {x})

RECURSIVE SumOver(_, _)
SumOver(S, f) ==
  IF S = {} THEN 0
  ELSE LET x == CHOOSE y \in S : TRUE IN f[x] + SumOver(S \ {x}, f)

RECURSIVE Concat(_)
Concat(ss) == IF ss = << >> THEN << >> ELSE Head(ss) \o Concat(Tail(ss))

Range(s) == { s[i] : i \in DOMAIN s }

CountIn(s, x) == Cardinality({ i \in DOMAIN s : s[i] = x })

Min(a, b) == IF a <= b THEN a ELSE b

Abs(a) == IF a < 0 THEN -a ELSE a

\* ---------------------------------------------------- content vectorizer
\* A token of a content string.  'action' is Word("action"); f"year_{year}" is
\* Num("year_", year).
Word(w) == [k |-> "word", s |-> w, n |-> 0]
Num(prefix, v) == [k |-> prefix, s |-> "", n |-> v]

\* genre.lower()
lower(g) ==
  CASE g = "Action" -> "action"
    [] g = "Drama" -> "drama"
    [] g = "Mystery" -> "mystery"
    [] g = "Thriller" -> "thriller"
    [] g = "Horror" -> "horror"
    [] g = "Sci-Fi" -> "sci-fi"
    [] g = "Adventure" -> "adventure"
    [] g = "Fantasy" -> "fantasy"
    [] OTHER -> g

theme_mapping ==
  [g \in {"Horror", "Sci-Fi", "Thriller", "Drama", "Action", "Mystery",
          "Adventure", "Fantasy"} |->
     CASE g = "Horror" -> <<"suspense", "tension", "supernatural">>
       [] g = "Sci-Fi" -> <<"space", "future", "technology">>
       [] g = "Thriller" -> <<"suspense", "mystery", "tension">>
       [] g = "Drama" -> <<"emotional", "character-driven", "relationship">>
       [] g = "Action" -> <<"adventure", "excitement", "dynamic">>
       [] g = "Mystery" -> <<"investigation", "suspense", "discovery">>
       [] g = "Adventure" -> <<"journey", "exploration", "discovery">>
       [] g = "Fantasy" -> <<"magical", "imagination", "supernatural">>]

\* The content string of a row, as the sequence of its whitespace-separated
\* tokens (content_parts); the empty sequence is the empty string.
GenreParts(row) ==
  LET genres == SeqOfSet(row.genres)
  IN [i \in DOMAIN genres |-> Word(lower(genres[i]))]

ThemeParts(row) ==
  LET genres == SeqOfSet(row.genres)
      themes(g) == IF g \in DOMAIN theme_mapping
                     THEN [j \in 1..3 |-> Word(theme_mapping[g][j])]
                     ELSE << >>
  IN Concat([i \in DOMAIN genres |-> themes(genres[i])])

YearParts(row) ==
  IF notna(row.year)
    THEN LET year == row.year
             decade == (year \div 10) * 10
             once == <<Num("year_", year), Num("decade_", decade), Num("era_", decade)>>
         IN once \o once
    ELSE << >>

RatingParts(row) ==
  IF notna(row.averageRating)
    THEN IF row.averageRating >= 75
           THEN <<Word("excellent_rating"), Word("excellent_rating"), Word("excellent_rating")>>
         ELSE IF row.averageRating >= 65
           THEN <<Word("good_rating"), Word("good_rating")>>
         ELSE <<Word("average_rating")>>
    ELSE << >>

VoteParts(row) ==
  IF notna(row.numVotes)
    THEN IF row.numVotes > 100000 THEN <<Word("highly_popular"), Word("highly_popular")>>
         ELSE IF row.numVotes > 50000 THEN <<Word("popular")>>
         ELSE IF row.numVotes > 10000 THEN <<Word("moderate_popularity")>>
         ELSE << >>
    ELSE << >>

_create_content_string(row) ==
  GenreParts(row) \o ThemeParts(row) \o YearParts(row) \o RatingParts(row) \o VoteParts(row)

\* ----------------------------------------------- similarity matrix build
\* data[data['content'].str.len() > 0]: the rows with a non-empty content
\* string, in order, each keeping its index label.
NonEmptyContent(row) == Len(_create_content_string(row)) > 0

DropEmptyContent(data) == SelectSeq(data, NonEmptyContent)

\* Alphabetical order of the tokens, which is the column order CountVectorizer
\* gives the vocabulary: the words and the numeric prefixes in sorted order;
\* tokens of one prefix sort by their (four-digit) number.
alphabetical ==
  << "action", "adventure", "average_rating", "character-driven", "decade_",
     "discovery", "drama", "dynamic", "emotional", "era_", "excellent_rating",
     "excitement", "exploration", "fantasy", "future", "good_rating",
     "highly_popular", "horror", "imagination", "investigation", "journey",
     "magical", "moderate_popularity", "mystery", "popular", "relationship",
     "sci-fi", "space", "supernatural", "suspense", "technology", "tension",
     "thriller", "year_" >>

Stem(t) == IF t.k = "word" THEN t.s ELSE t.k

Column(t) == CHOOSE i \in DOMAIN alphabetical : alphabetical[i] = Stem(t)


\* Every token of the corpus (min_df=1, no stop words).
AllTerms(contents) == UNION { Range(contents[i]) : i \in DOMAIN contents }

\* tfs = X.sum(axis=0): occurrences of a term in the whole corpus.
TermFrequency(contents, t) ==
  SumOver(DOMAIN contents, [i \in DOMAIN contents |-> CountIn(contents[i], t)])

\* CountVectorizer._limit_features: when more than `limit` terms exist keep
\* the `limit` most frequent; (-tfs).argsort() takes equally frequent terms in
\* column order.
LimitFeatures(contents, limit) ==
  LET terms == AllTerms(contents)
      tfs == [t \in terms |-> TermFrequency(contents, t)]
      column == [t \in terms |-> Column(t)]
      SortsBefore(u, t) == \/ column[u] < column[t]
                           \/ column[u] = column[t] /\ u.n < t.n
      Ahead(u, t) == \/ tfs[u] > tfs[t]
                     \/ tfs[u] = tfs[t] /\ SortsBefore(u, t)
  IN IF Cardinality(terms) <= limit THEN terms
     ELSE { t \in terms : Cardinality({ u \in terms : Ahead(u, t) }) < limit }

\* count_vectorizer.fit_transform: one count vector per row over the kept terms.
CountMatrix(contents, vocabulary) ==
  [i \in DOMAIN contents |-> [t \in vocabulary |-> CountIn(contents[i], t)]]

Dot(u, v) == SumOver(DOMAIN u, [t \in DOMAIN u |-> u[t] * v[t]])

\* The largest r in lo..hi with r*r*b <= a (lo satisfies it).
RECURSIVE FloorRoot(_, _, _, _)
FloorRoot(lo, hi, a, b) ==
  IF lo >= hi THEN lo
  ELSE LET mid == (lo + hi + 1) \div 2
       IN IF mid * mid * b <= a THEN FloorRoot(mid, hi, a, b)
                                ELSE FloorRoot(lo, mid - 1, a, b)

\* Cosine with the product divided by the squared norm of the first row alone.
CosineByFirstNorm(u, v) ==
  LET uu == Dot(u, u)
      vv == Dot(v, v)
      uv == Dot(u, v)
  IN IF uu = 0 \/ vv = 0 THEN 0
     ELSE FloorRoot(0, CosScale, CosScale * CosScale * uv * uv, uu * uu)

\* One entry of cosine_similarity(X, X): the rows are L2-normalised (a row of
\* norm 0 is left as it is) and multiplied; in thousandths, rounded down.
Cosine(u, v) ==
  LET uu == Dot(u, u)
      vv == Dot(v, v)
      uv == Dot(u, v)
  IN IF uu = 0 \/ vv = 0 THEN 0
     ELSE FloorRoot(0, CosScale, CosScale * CosScale * uv * uv, uu * vv)

cosine_similarity(X) ==
  [i \in DOMAIN X |-> [j \in DOMAIN X |-> Cosine(X[i], X[j])]]

\* create_similarity_matrix(data) with CountVectorizer(max_features=limit).
\* raised = TRUE is the ValueError the function logs and re-raises.
BuildError ==
  [raised |-> TRUE, data |-> << >>, count_matrix |-> << >>, similarity_matrix |-> << >>]

create_similarity_matrix(data, limit) ==
  LET kept == DropEmptyContent(data)
      contents == [i \in DOMAIN kept |-> _create_content_string(kept[i])]
      vocabulary == LimitFeatures(contents, limit)
      count_matrix == CountMatrix(contents, vocabulary)
  IN IF Len(kept) = 0 THEN BuildError
     ELSE IF vocabulary = {} THEN BuildError
     ELSE [raised |-> FALSE, data |-> kept, count_matrix |-> count_matrix,
           similarity_matrix |-> cosine_similarity(count_matrix)]

\* ------------------------------------------------------------- queries
\* What get_recommendations reads of the title it is given: whether
\* title.strip() is empty (kind "empty" is '', "blank" is whitespace only) and,
\* for a title with text, the confidence process.extractOne's scorer gives it
\* against each catalog title.
Confidences == {69, 70, 100}

NoText == [t \in Titles |-> 0]

Queries ==
  { [kind |-> k, conf |-> NoText] : k \in {"empty", "blank"} }
    \cup { [kind |-> "text", conf |-> c] : c \in [Titles -> Confidences] }

\* ---------------------------------------------------------------- ranker
\* list(title_to_index.keys()): the distinct titles in order of first occurrence.
RECURSIVE TitleKeys(_)
TitleKeys(data) ==
  IF data = << >> THEN << >>
  ELSE LET front == TitleKeys(SubSeq(data, 1, Len(data) - 1))
           t == data[Len(data)].title
       IN IF t \in Range(front) THEN front ELSE Append(front, t)

\* title_to_index[t] of {row['title']: idx for idx, row in data.iterrows()}:
\* a later row with the same title overwrites the entry, so the label kept is
\* that of the last row carrying the title.
title_to_index(data, t) ==
  LET last == CHOOSE i \in DOMAIN data :
                /\ data[i].title = t
                /\ \A j \in DOMAIN data : data[j].title = t => j <= i
  IN data[last].label

\* process.extractOne(title, choices): the first choice of highest score, or
\* None when there is no choice.
None == [title |-> "", score |-> -1]

extractOne(query, choices) ==
  IF choices = << >> THEN None
  ELSE LET best == CHOOSE i \in DOMAIN choices :
                     /\ \A j \in DOMAIN choices : query.conf[choices[j]] <= query.conf[choices[i]]
                     /\ \A j \in 1..(i - 1) : query.conf[choices[j]] < query.conf[choices[i]]
       IN [title |-> choices[best], score |-> query.conf[choices[best]]]

\* Weights of the final score, in hundredths.
w_base == 50
w_diversity == 20
w_rating == 15
w_popularity == 10
w_era == 5
w_penalty == 100
default_year == 2024

\* The bonus terms of one candidate, in millionths.
diversity_bonus(current_genres, seen) ==
  Cardinality(current_genres \ seen) * 150000

genre_penalty(current_genres, genre_counts) ==
  SumOver(current_genres \cap DOMAIN genre_counts,
          [g \in current_genres \cap DOMAIN genre_counts |-> genre_counts[g] * 50000])

rating_bonus(rating) == IF rating > 50 THEN (rating - 50) * 4000 ELSE 0

popularity_bonus(votes) == Min(150000, votes)

era_bonus(year, source_year) == Min(200000, Abs(year - source_year) * 5000)

\* final_score, in units of 1e-8.
final_score(base_score, current_genres, seen, genre_counts, rating, votes, year, source_year) ==
  (base_score * (1000000 \div CosScale)) * w_base
    + diversity_bonus(current_genres, seen) * w_diversity
    + rating_bonus(rating) * w_rating
    + popularity_bonus(votes) * w_popularity
    + era_bonus(year, source_year) * w_era
    - genre_penalty(current_genres, genre_counts) * w_penalty

\* A loop that leaves genre_counts as it found it.
KeepCounts(genre_counts, current_genres) == genre_counts

\* for genre in current_genres: genre_counts[genre] = genre_counts.get(genre, 0) + 1
CountGenres(genre_counts, current_genres) ==
  [g \in DOMAIN genre_counts \cup current_genres |->
     (IF g \in DOMAIN genre_counts THEN genre_counts[g] ELSE 0)
       + (IF g \in current_genres THEN 1 ELSE 0)]

\* An ascending sort whose result is reversed: descending, but candidates of
\* equal score come out in the reverse of the order they were appended in.
RECURSIVE SortThenReverse(_)
SortThenReverse(candidates) ==
  IF candidates = << >> THEN << >>
  ELSE LET n == Len(candidates)
           front == SortThenReverse(SubSeq(candidates, 1, n - 1))
           x == candidates[n]
           ahead == Cardinality({ i \in DOMAIN front :
                                    front[i].similarity_score > x.similarity_score })
       IN SubSeq(front, 1, ahead) \o <<x>> \o SubSeq(front, ahead + 1, Len(front))

\* candidates.sort(key=similarity_score, reverse=True): a stable sort, so
\* candidates of equal score keep the order in which they were appended.
RECURSIVE SortByScore(_)
SortByScore(candidates) ==
  IF candidates = << >> THEN << >>
  ELSE LET n == Len(candidates)
           front == SortByScore(SubSeq(candidates, 1, n - 1))
           x == candidates[n]
           ahead == Cardinality({ i \in DOMAIN front :
                                    front[i].similarity_score >= x.similarity_score })
       IN SubSeq(front, 1, ahead) \o <<x>> \o SubSeq(front, ahead + 1, Len(front))

\* candidates[:max_recommendations]
Slice(candidates, max_recommendations) ==
  SubSeq(candidates, 1, Min(Len(candidates), max_recommendations))

\* A list that holds a recommendation when the loop starts.
OneRecommendation == <<"selected">>

\* The three collections get_recommendations sets up before its loop and
\* never updates inside it.
recommendations == << >>
seen_genres == {}
seen_titles == {}

Genres(row) == row.genres

\* The first pass over enumerate(similarity_matrix[movie_idx]) from position
\* idx on: the scored candidates, in the order appended.
RECURSIVE FirstPass(_, _, _, _, _, _, _, _)
FirstPass(scores, frame, movie_idx, max_recs, source_genres, source_year, idx, loop) ==
  IF idx > Len(scores) THEN loop.candidates
  ELSE
    LET movie == frame[idx]
        title == movie.title
        current_genres == Genres(movie)
        rating == IF notna(movie.averageRating) THEN movie.averageRating ELSE 0
        votes == IF notna(movie.numVotes) THEN movie.numVotes ELSE 0
        year == IF notna(movie.year) THEN movie.year ELSE default_year
        scored ==
          [title |-> title, year |-> year, genres |-> current_genres, rating |-> rating,
           similarity_score |->
             final_score(scores[idx], current_genres, seen_genres,
                         loop.genre_counts, rating, votes, year, source_year),
           idx |-> idx]
        skip ==
          \/ idx = movie_idx
          \/ title \in seen_titles
          \/ /\ Len(recommendations) >= max_recs \div 2
             /\ current_genres = source_genres
        next == IF skip THEN loop
                ELSE [candidates |-> Append(loop.candidates, scored),
                      genre_counts |-> CountGenres(loop.genre_counts, current_genres)]
    IN FirstPass(scores, frame, movie_idx, max_recs, source_genres, source_year,
                 idx + 1, next)

\* What a call yields.  `recommendations` is the list returned; the other
\* fields record the path taken: `raised` the exception raised inside the try
\* block ("" when none), `propagated` whether it left the function, `resolved`
\* whether a closest match was accepted, with its title and the index found
\* for it (which the code then uses as the position of the source row).
Returned(recs, raised, resolved, matched_title, movie_idx) ==
  [recommendations |-> recs, raised |-> raised, propagated |-> raised # "",
   resolved |-> resolved, matched_title |-> matched_title, movie_idx |-> movie_idx]

\* The threshold test with <= in place of <.
NoCloseMatchInclusive(closest_match, min_sim) ==
  closest_match = None \/ closest_match.score <= min_sim

\* not closest_match or closest_match[1] < min_similarity
NoCloseMatch(closest_match, min_sim) ==
  closest_match = None \/ closest_match.score < min_sim

\* not isinstance(title, str) or not title.strip()
InvalidTitle(title) == title.kind # "text"

\* The try block of get_recommendations.
TryRecommend(title, data, similarity_matrix, min_sim, max_recommendations) ==
  IF InvalidTitle(title) THEN Returned(<< >>, "ValueError", FALSE, "", 0)
  ELSE
    LET closest_match == extractOne(title, TitleKeys(data))
    IN IF NoCloseMatch(closest_match, min_sim)
         THEN Returned(<< >>, "", FALSE, "", 0)
       ELSE
         LET matched_title == closest_match.title
             movie_idx == title_to_index(data, matched_title)
         IN IF movie_idx > Len(data) \/ movie_idx > Len(similarity_matrix)
              THEN Returned(<< >>, "IndexError", TRUE, matched_title, movie_idx)
            ELSE
              LET source_movie == data[movie_idx]
                  similarity_scores == similarity_matrix[movie_idx]
                  source_genres == Genres(source_movie)
                  source_year == IF notna(source_movie.year) THEN source_movie.year
                                 ELSE default_year
              IN IF Len(similarity_scores) > Len(data)
                   THEN Returned(<< >>, "IndexError", TRUE, matched_title, movie_idx)
                 ELSE
                   LET candidates ==
                         FirstPass(similarity_scores, data, movie_idx, max_recommendations,
                                   source_genres, source_year, 1,
                                   [candidates |-> << >>, genre_counts |-> << >>])
                   IN Returned(Slice(SortByScore(candidates), max_recommendations),
                               "", TRUE, matched_title, movie_idx)

\* A handler that logs and re-raises, as the one of create_similarity_matrix does.
LogAndReraise(tried) == tried

\* except Exception as e: logger.error(...); return []
ReturnEmptyOnError(tried) ==
  IF tried.raised # ""
    THEN [tried EXCEPT !.recommendations = << >>, !.propagated = FALSE]
    ELSE tried

get_recommendations(title, data, similarity_matrix, min_sim, max_recommendations) ==
  ReturnEmptyOnError(
    TryRecommend(title, data, similarity_matrix, min_sim, max_recommendations))

\* MovieRecommender.find_similar_movies (a first call for its arguments: the
\* lru_cache holds nothing for them).
find_similar_movies(title, processed, similarity_matrix, max_recommendations) ==
  ReturnEmptyOnError(
    get_recommendations(title, processed, similarity_matrix, min_similarity,
                        max_recommendations))

\* ------------------------------------------------------------ the engine
VARIABLES
  data,               \* the catalog frame handed to the build
  limit,              \* the vocabulary cap the build runs with
  status,             \* "new", "ready" (built) or "failed" (the build raised)
  processed_data,     \* the frame the build returned
  count_matrix,       \* the term matrix the build fed to cosine_similarity
  similarity_matrix,  \* the matrix the build returned
  call                \* the last get_recommendations call and what it yielded

\* The engine within the application: the frame's columns, the constructor's
\* progress, the cache files, the application's recommender, the query memo.
VARIABLES
  columns,            \* the columns of the catalog frame
  pc,                 \* where MovieRecommender.__init__ stands ("off": not modelled)
  disk,               \* the two files of the cache directory
  recommender,        \* what initialize_recommender holds: "uninit", "none", "engine"
  memo,               \* the lru_cache of find_similar_movies, least recent first
  history,            \* the keys find_similar_movies was called with, in order
  run,                \* what this start-up did: cache load, build, store, error raised
  shown,              \* what the page last reported
  startups            \* process starts so far

engine_vars == <<data, limit, status, processed_data, count_matrix, similarity_matrix, call>>

app_vars == <<columns, pc, disk, recommender, memo, history, run, shown, startups>>

vars == <<engine_vars, app_vars>>

\* The five fields of a catalog item, and those create_similarity_matrix requires.
CatalogFields == {"title", "year", "genres", "averageRating", "numVotes"}

required_columns == {"genres", "year", "averageRating", "title"}

\* data['content'] = data.apply(_create_content_string, axis=1), on the frame
\* the caller passed: the columns it has once create_similarity_matrix is
\* over.  The line is not reached when a required column is missing; on a
\* frame with no rows apply returns a frame, which the pandas version at hand
\* either refuses to assign or assigns.
ColumnsAfterBuild(frame, cols) ==
  IF required_columns \ cols # {} THEN {cols}
  ELSE IF frame = << >> THEN {cols, cols \cup {"content"}}
  ELSE {cols \cup {"content"}}

\* A cache file: absent, unreadable by joblib.load, or holding an artifact.
Absent == [state |-> "absent", content |-> << >>]

Corrupt == [state |-> "corrupt", content |-> << >>]

Stored(artifact) == [state |-> "ok", content |-> artifact]

NoDisk == [dir |-> "absent", sim |-> Absent, data |-> Absent]

NoRun == [loaded |-> "no", partly |-> FALSE, built |-> FALSE, stored |-> "no", error |-> ""]

\* The application is not part of the behaviour: a frame with all its columns
\* is built and queried directly.
AppOff ==
  /\ columns = CatalogFields
  /\ pc = "off"
  /\ disk = NoDisk
  /\ recommender = "uninit"
  /\ memo = << >>
  /\ history = << >>
  /\ run = NoRun
  /\ shown = ""
  /\ startups = 0

NoCall ==
  [made |-> FALSE, title |-> [kind |-> "empty", conf |-> NoText],
   max_recommendations |-> 0, data |-> << >>,
   out |-> Returned(<< >>, "", FALSE, "", 0)]

Init ==
  /\ data \in { Frame(cat) : cat \in Catalogs }
  /\ limit \in FeatureCaps
  /\ status = "new"
  /\ processed_data = << >>
  /\ count_matrix = << >>
  /\ similarity_matrix = << >>
  /\ call = NoCall
  /\ AppOff

\* processed_data, similarity_matrix = create_similarity_matrix(data)
Build ==
  /\ pc = "off"
  /\ status = "new"
  /\ LET built == create_similarity_matrix(data, limit)
     IN /\ status' = IF built.raised THEN "failed" ELSE "ready"
        /\ processed_data' = built.data
        /\ count_matrix' = built.count_matrix
        /\ similarity_matrix' = built.similarity_matrix
  /\ columns' \in ColumnsAfterBuild(data, columns)
  /\ UNCHANGED <<data, limit, call>>
  /\ UNCHANGED <<pc, disk, recommender, memo, history, run, shown, startups>>

\* recommender.find_similar_movies(title, n) on the built engine.  The query
\* path is pure: what a call yields does not depend on the calls before it, so a
\* behaviour follows one call.
Recommend(title, n) ==
  /\ pc = "off"
  /\ status = "ready"
  /\ ~call.made
  /\ call' = [made |-> TRUE, title |-> title, max_recommendations |-> n,
              data |-> processed_data,
              out |-> find_similar_movies(title, processed_data, similarity_matrix, n)]
  /\ UNCHANGED <<data, limit, status, processed_data, count_matrix, similarity_matrix>>
  /\ UNCHANGED app_vars

\* get_recommendations called with the frame the filtering left empty (and
\* the empty matrix), which the build refused.
RecommendOnEmpty(title, n) ==
  /\ pc = "off"
  /\ status = "failed"
  /\ ~call.made
  /\ call' = [made |-> TRUE, title |-> title, max_recommendations |-> n,
              data |-> << >>,
              out |-> get_recommendations(title, << >>, << >>, min_similarity, n)]
  /\ UNCHANGED <<data, limit, status, processed_data, count_matrix, similarity_matrix>>
  /\ UNCHANGED app_vars

Next ==
  \/ Build
  \/ \E title \in Queries, n \in 0..MaxRecommendations : Recommend(title, n)
  \/ \E title \in Queries, n \in 0..MaxRecommendations : RecommendOnEmpty(title, n)

Spec == Init /\ [][Next]_vars

\* ------------------------------------------------- the catalog's columns
\* The frames create_similarity_matrix may be handed: all five columns, or one
\* of them absent.
ColumnSets == {CatalogFields} \cup { CatalogFields \ {c} : c \in CatalogFields }

\* missing_columns = [col for col in required_columns if col not in data.columns]
missing_columns(cols) == required_columns \ cols

\* row.get('numVotes'): None, which pd.notna refuses, when the frame has no
\* such column.
row_get_numVotes(row, cols) == IF "numVotes" \in cols THEN row.numVotes ELSE NaN

WithColumns(frame, cols) ==
  [i \in DOMAIN frame |-> [frame[i] EXCEPT !.numVotes = row_get_numVotes(frame[i], cols)]]

\* create_similarity_matrix from its first line: the check of the required
\* columns, then the build.
CreateFromColumns(frame, cols, features) ==
  IF missing_columns(cols) # {} THEN BuildError
  ELSE create_similarity_matrix(WithColumns(frame, cols), features)

InitSchema ==
  /\ data \in {Frame(cat) : cat \in Catalogs}
  /\ limit = max_features
  /\ status = "new"
  /\ processed_data = << >>
  /\ count_matrix = << >>
  /\ similarity_matrix = << >>
  /\ call = NoCall
  /\ columns \in ColumnSets
  /\ pc = "schema"
  /\ disk = NoDisk
  /\ recommender = "uninit"
  /\ memo = << >>
  /\ history = << >>
  /\ run = NoRun
  /\ shown = ""
  /\ startups = 0

\* create_similarity_matrix(data) on a frame with the columns `columns`.
BuildFromColumns ==
  /\ pc = "schema"
  /\ status = "new"
  /\ LET built == CreateFromColumns(data, columns, limit)
     IN /\ status' = IF built.raised THEN "failed" ELSE "ready"
        /\ processed_data' = built.data
        /\ count_matrix' = built.count_matrix
        /\ similarity_matrix' = built.similarity_matrix
  /\ columns' \in ColumnsAfterBuild(data, columns)
  /\ UNCHANGED <<data, limit, call>>
  /\ UNCHANGED <<pc, disk, recommender, memo, history, run, shown, startups>>

NextSchema == BuildFromColumns

SpecSchema == InitSchema /\ [][NextSchema]_vars

\* ================================================================ claims
Recs == call.out.recommendations

\* The call went through title resolution and accepted a match.
Resolved == call.made /\ call.out.resolved

\* The labels of the frame the call ran on are its positions (no row was
\* dropped by the build).
PositionalLabels == \A i \in DOMAIN call.data : call.data[i].label = i

\* C1: a call that resolves its query to a title never returns the catalog
\* row carrying that title, also when the build dropped rows of empty content.
C1_SourceNeverReturned ==
  Resolved =>
    \A i \in DOMAIN Recs : call.data[Recs[i].idx].title # call.out.matched_title

\* C2: no two records of a returned list carry the same title.
C2_NoDuplicateTitles ==
  call.made =>
    \A i, j \in DOMAIN Recs : i # j => Recs[i].title # Recs[j].title

\* C3: a call that resolves its query returns at most max_recommendations
\* records; all of the items other than the source when these are fewer than
\* max_recommendations; and none when the corpus holds the source alone.
C3_AtMostMaxAllWhenFewer ==
  Resolved =>
    /\ Len(Recs) <= call.max_recommendations
    /\ (Len(call.data) - 1 < call.max_recommendations => Len(Recs) = Len(call.data) - 1)
    /\ (Len(call.data) = 1 => Recs = << >>)

\* C4: the returned list is in non-increasing order of adjusted score, and
\* records of equal score are in corpus order.
C4_SortedStable ==
  call.made =>
    \A i, j \in DOMAIN Recs :
      i < j => \/ Recs[i].similarity_score > Recs[j].similarity_score
               \/ /\ Recs[i].similarity_score = Recs[j].similarity_score
                  /\ Recs[i].idx < Recs[j].idx

\* Two records of equal score were returned.
C4_Witness ==
  /\ call.made
  /\ \E i, j \in DOMAIN Recs :
       i < j /\ Recs[i].similarity_score = Recs[j].similarity_score

\* C5: an empty or whitespace-only query yields the empty list and no
\* exception leaves the call, on a built engine and on an empty frame alike.
C5_BlankQueryEmptyNoException ==
  call.made /\ call.title.kind \in {"empty", "blank"} =>
    Recs = << >> /\ ~call.out.propagated

\* A whitespace-only query was put to an engine built on a corpus of several rows.
C5_Witness ==
  /\ call.made
  /\ call.title.kind = "blank"
  /\ Len(call.data) >= 2
  /\ status = "ready"

\* The highest confidence the query has against a title of the frame.
BestConfidence ==
  CHOOSE c \in { call.title.conf[call.data[i].title] : i \in DOMAIN call.data } :
    \A i \in DOMAIN call.data : call.title.conf[call.data[i].title] <= c

\* C6: for a query with text, resolution yields no match exactly when the
\* frame has no title or the best confidence is below min_similarity; the call
\* then returns the empty list and raises nothing.
C6_NoMatchIffEmptyOrBelow ==
  call.made /\ call.title.kind = "text" =>
    /\ ~call.out.resolved <=>
         (call.data = << >> \/ BestConfidence < min_similarity)
    /\ ~call.out.resolved =>
         Recs = << >> /\ call.out.raised = "" /\ ~call.out.propagated

\* A best match of confidence exactly min_similarity was accepted and ranked.
C6_Witness ==
  /\ call.made
  /\ call.title.kind = "text"
  /\ call.data # << >>
  /\ BestConfidence = min_similarity
  /\ call.out.resolved
  /\ Recs # << >>

\* C7: when several rows carry the resolved title, the row read as the source
\* item is the first of them in corpus order.
C7_FirstMatchWins ==
  Resolved /\ PositionalLabels =>
    \A i \in DOMAIN call.data :
      call.data[i].title = call.out.matched_title => call.out.movie_idx <= i

\* C8: every row of a built similarity matrix has unit self-similarity.
C8_UnitDiagonal ==
  status = "ready" =>
    \A i \in DOMAIN similarity_matrix : similarity_matrix[i][i] = CosScale

\* C9: a built similarity matrix is square, with one row per item of the
\* working corpus, and symmetric.
C9_SquareSymmetric ==
  status = "ready" =>
    /\ Len(similarity_matrix) = Len(processed_data)
    /\ \A i \in DOMAIN similarity_matrix :
         /\ Len(similarity_matrix[i]) = Len(processed_data)
         /\ \A j \in DOMAIN similarity_matrix :
              similarity_matrix[i][j] = similarity_matrix[j][i]

\* A matrix was built in which two items are partly similar.
C9_Witness ==
  /\ status = "ready"
  /\ \E i, j \in DOMAIN similarity_matrix :
       i # j /\ similarity_matrix[i][j] > 0 /\ similarity_matrix[i][j] < CosScale

\* C10: no item of empty content is in the working corpus, and every row of
\* the term matrix that enters the cosine computation has nonzero magnitude.
C10_NonZeroRows ==
  status = "ready" =>
    /\ \A i \in DOMAIN processed_data : NonEmptyContent(processed_data[i])
    /\ \A i \in DOMAIN count_matrix : Dot(count_matrix[i], count_matrix[i]) > 0

\* ------------------------------------------------ ranking errors and scores
\* The call ranked candidates: it resolved its query and no lookup failed.
Ranked == Resolved /\ call.out.raised = ""

\* What the ranking loop of the call read for the candidate at position idx.
BaseScore(idx) == similarity_matrix[call.out.movie_idx][idx]

SourceYear ==
  LET source_movie == call.data[call.out.movie_idx]
  IN IF notna(source_movie.year) THEN source_movie.year ELSE default_year

Votes(idx) == IF notna(call.data[idx].numVotes) THEN call.data[idx].numVotes ELSE 0

\* The candidates of the call, in the order the loop appended them.
AllCandidates ==
  FirstPass(similarity_matrix[call.out.movie_idx], call.data, call.out.movie_idx,
            call.max_recommendations, Genres(call.data[call.out.movie_idx]),
            SourceYear, 1, [candidates |-> << >>, genre_counts |-> << >>])

\* genre_counts as the loop held it when it scored the k-th candidate.
RECURSIVE GenreCountsBefore(_, _)
GenreCountsBefore(candidates, k) ==
  IF k <= 1 THEN << >>
  ELSE CountGenres(GenreCountsBefore(candidates, k - 1), candidates[k - 1].genres)

\* The score of candidate r had the loop held `seen` and `genre_counts`.
ScoreWith(r, seen, genre_counts) ==
  final_score(BaseScore(r.idx), r.genres, seen, genre_counts, r.rating, Votes(r.idx),
              r.year, SourceYear)

\* C18: an index error raised while ranking (a row lookup out of range for
\* the frame or the similarity matrix) leaves get_recommendations as an
\* exception; it is never answered with the ordinary empty result.
C18_IndexErrorPropagates ==
  (call.made /\ call.out.raised = "IndexError") => call.out.propagated

\* C19: the score is a convex combination of its terms: the coefficients of
\* base similarity and the four bonuses sum to 1, base similarity carries at
\* least 40% of that weight, and no other term enters the score, so every
\* returned score is the weighted sum of base similarity and the four
\* bonuses, whatever genres were counted before it.
C19_ConvexCombination ==
  /\ w_base + w_diversity + w_rating + w_popularity + w_era = 100
  /\ w_base * 100 >= 40 * (w_base + w_diversity + w_rating + w_popularity + w_era)
  /\ Ranked =>
       \A i \in DOMAIN Recs :
         Recs[i].similarity_score = ScoreWith(Recs[i], seen_genres, << >>)

\* The diversity bonus that entered the score of the k-th candidate, in
\* millionths: its score less the score it has when all its genres are seen.
DiversityApplied(candidates, k) ==
  LET r == candidates[k]
      genre_counts == GenreCountsBefore(candidates, k)
  IN (r.similarity_score - ScoreWith(r, r.genres, genre_counts)) \div w_diversity

\* The genres of the recommendations returned that the loop reached before
\* position idx.
SelectedBefore(idx) ==
  UNION { Recs[i].genres : i \in { j \in DOMAIN Recs : Recs[j].idx < idx } }

\* C20: the diversity bonus of a returned recommendation counts only its
\* genres carried by no recommendation selected before it.
C20_DiversityCountsUnseenGenres ==
  Ranked =>
    LET candidates == AllCandidates
    IN \A k \in DOMAIN candidates :
         (\E i \in DOMAIN Recs : Recs[i].idx = candidates[k].idx) =>
           DiversityApplied(candidates, k)
             = diversity_bonus(candidates[k].genres, SelectedBefore(candidates[k].idx))

\* ------------------------------------------------ the application's engine
\* The catalogs load_movies may return at a process start: one that builds,
\* one whose rows all have empty content, which the build refuses, and one
\* that builds after a row of empty content is dropped.  The
\* cache directory may hold artifacts of an older catalog.
ActionProfile == CHOOSE p \in Profiles : p.genres = {"Action"}

DramaProfile == CHOOSE p \in Profiles : "Drama" \in p.genres

EmptyProfile == CHOOSE p \in Profiles : p.genres = {} /\ p.numVotes = NaN

NewCatalog == <<Item("A", ActionProfile), Item("B", DramaProfile)>>

OldCatalog == <<Item("A", ActionProfile), Item("B", ActionProfile)>>

UnbuildableCatalog == <<Item("A", EmptyProfile)>>

\* A catalog whose first row the build drops: the frame built keeps the
\* index label of the second.
GappedCatalog == <<Item("B", EmptyProfile), Item("A", ActionProfile)>>

AppFrames == {Frame(NewCatalog), Frame(UnbuildableCatalog), Frame(GappedCatalog)}

OldBuild == create_similarity_matrix(Frame(OldCatalog), max_features)

\* The catalogs a build that wrote to the cache directory may have run on,
\* and what create_similarity_matrix yields on each.
StoredFrames == AppFrames \cup {Frame(OldCatalog)}

BuildOf(f) == create_similarity_matrix(f, max_features)

\* The cache directory at the first start: not there, there with each file
\* absent, unreadable or left by a run on the older catalog, or impossible to
\* create (a regular file named `cache`, a read-only working directory).
CacheFiles(artifact) == {Absent, Corrupt, Stored(artifact)}

Disks ==
  {NoDisk, [dir |-> "blocked", sim |-> Absent, data |-> Absent]}
    \cup { [dir |-> "ok", sim |-> f, data |-> g] :
             f \in CacheFiles(OldBuild.similarity_matrix), g \in CacheFiles(OldBuild.data) }

\* The queries the page sends: two titles typed, each matching one catalog
\* title exactly, with the smallest number of recommendations the page
\* allows or its default.
AppQueries ==
  { [kind |-> "text", conf |-> [t \in Titles |-> IF t = m THEN 100 ELSE 69]] : m \in Titles }

AppCounts == {5, 10}

Keys == AppQueries \X AppCounts

\* The capacity of the memo in the behaviours explored.
maxsize == Min(lru_maxsize, MemoCap)

InitApp ==
  /\ data = << >>
  /\ limit = max_features
  /\ status = "new"
  /\ processed_data = << >>
  /\ count_matrix = << >>
  /\ similarity_matrix = << >>
  /\ call = NoCall
  /\ columns = CatalogFields
  /\ pc = "idle"
  /\ disk \in Disks
  /\ recommender = "uninit"
  /\ memo = << >>
  /\ history = << >>
  /\ run = NoRun
  /\ shown = ""
  /\ startups = 1

\* initialize_recommender, first call of the process: load_movies() returns
\* the catalog and MovieRecommender.__init__ sets its attributes (lines 20-23).
Construct ==
  /\ recommender = "uninit"
  /\ pc = "idle"
  /\ data' \in AppFrames
  /\ processed_data' = << >>
  /\ similarity_matrix' = << >>
  /\ pc' = "mkdir"
  /\ columns' = CatalogFields
  /\ UNCHANGED <<limit, status, count_matrix, call>>
  /\ UNCHANGED <<disk, recommender, memo, history, run, shown, startups>>

\* self.CACHE_DIR.mkdir(exist_ok=True), outside any try block: an OSError
\* leaves the constructor.
InitializeCacheDir ==
  /\ pc = "mkdir"
  /\ IF disk.dir = "blocked"
       THEN /\ pc' = "raised"
            /\ status' = "failed"
            /\ run' = [run EXCEPT !.error = "OSError"]
            /\ UNCHANGED disk
       ELSE /\ pc' = "load_sim"
            /\ disk' = [disk EXCEPT !.dir = "ok"]
            /\ UNCHANGED <<status, run>>
  /\ UNCHANGED <<data, limit, processed_data, count_matrix, similarity_matrix, call>>
  /\ UNCHANGED <<columns, recommender, memo, history, shown, startups>>

\* A test that ignores the result of _load_cache.
AlwaysRebuild(hit) == FALSE

\* if self._load_cache(): return
SkipRebuild(hit) == hit

\* _load_cache up to line 37: both files exist and the similarity matrix is
\* loaded, or the load is given up.
LoadSimilarityMatrix ==
  /\ pc = "load_sim"
  /\ IF disk.sim.state # "absent" /\ disk.data.state # "absent" /\ disk.sim.state = "ok"
       THEN /\ similarity_matrix' = disk.sim.content
            /\ pc' = "load_data"
            /\ UNCHANGED run
       ELSE /\ pc' = "build"
            /\ run' = [run EXCEPT !.loaded = "miss"]
            /\ UNCHANGED similarity_matrix
  /\ UNCHANGED <<data, limit, status, processed_data, count_matrix, call>>
  /\ UNCHANGED <<columns, disk, recommender, memo, history, shown, startups>>

\* _load_cache line 38 and the return to _process_data (lines 55-56).
LoadProcessedData ==
  /\ pc = "load_data"
  /\ LET hit == disk.data.state = "ok"
     IN /\ processed_data' = IF hit THEN disk.data.content ELSE processed_data
        /\ run' = [run EXCEPT !.loaded = IF hit THEN "hit" ELSE "miss", !.partly = ~hit]
        /\ pc' = IF SkipRebuild(hit) THEN "done" ELSE "build"
        /\ status' = IF SkipRebuild(hit) THEN "ready" ELSE status
  /\ UNCHANGED <<data, limit, count_matrix, similarity_matrix, call>>
  /\ UNCHANGED <<columns, disk, recommender, memo, history, shown, startups>>

\* A handler that logs and does not raise.
ProcessDataLogsOnly(built) == FALSE

\* except Exception as e: logger.error(...); raise   (_process_data, lines 62-64)
ProcessDataRaises(built) == built.raised

\* _process_data after a cache miss (lines 58-64): the build, whose result is
\* assigned to both attributes in one statement.
ProcessData ==
  /\ pc = "build"
  /\ LET built == create_similarity_matrix(data, limit)
     IN /\ run' = [run EXCEPT !.built = ~built.raised,
                              !.error = IF built.raised THEN "ValueError" ELSE @]
        /\ IF built.raised
             THEN /\ pc' = IF ProcessDataRaises(built) THEN "raised" ELSE "done"
                  /\ status' = IF ProcessDataRaises(built) THEN "failed" ELSE "ready"
                  /\ UNCHANGED <<processed_data, count_matrix, similarity_matrix>>
             ELSE /\ pc' = "save_sim"
                  /\ processed_data' = built.data
                  /\ count_matrix' = built.count_matrix
                  /\ similarity_matrix' = built.similarity_matrix
                  /\ UNCHANGED status
  /\ columns' \in ColumnsAfterBuild(data, columns)
  /\ UNCHANGED <<data, limit, call>>
  /\ UNCHANGED <<disk, recommender, memo, history, shown, startups>>

\* A handler that re-raises what it caught.
SaveFailureReraised(failed) == failed

\* except Exception as e: logger.warning(...)   (_save_cache, lines 50-51)
SaveFailureRaises(failed) == FALSE

\* What a joblib.dump that raised leaves of its file: the old file or a
\* truncated one.
AfterFailedDump(file) == {file, Corrupt}

\* _save_cache line 48: joblib.dump(self.similarity_matrix, ...).
SaveSimilarityMatrix ==
  /\ pc = "save_sim"
  /\ \/ /\ disk' = [disk EXCEPT !.sim = Stored(similarity_matrix)]
        /\ pc' = "save_data"
        /\ UNCHANGED <<status, run>>
     \/ /\ \E f \in AfterFailedDump(disk.sim) : disk' = [disk EXCEPT !.sim = f]
        /\ pc' = IF SaveFailureRaises(TRUE) THEN "raised" ELSE "done"
        /\ status' = IF SaveFailureRaises(TRUE) THEN "failed" ELSE "ready"
        /\ run' = [run EXCEPT !.stored = "failed",
                              !.error = IF SaveFailureRaises(TRUE) THEN "OSError" ELSE @]
  /\ UNCHANGED <<data, limit, processed_data, count_matrix, similarity_matrix, call>>
  /\ UNCHANGED <<columns, recommender, memo, history, shown, startups>>

\* _save_cache line 49: joblib.dump(self.processed_data, ...).
SaveProcessedData ==
  /\ pc = "save_data"
  /\ \/ /\ disk' = [disk EXCEPT !.data = Stored(processed_data)]
        /\ pc' = "done"
        /\ status' = "ready"
        /\ run' = [run EXCEPT !.stored = "ok"]
     \/ /\ \E f \in AfterFailedDump(disk.data) : disk' = [disk EXCEPT !.data = f]
        /\ pc' = IF SaveFailureRaises(TRUE) THEN "raised" ELSE "done"
        /\ status' = IF SaveFailureRaises(TRUE) THEN "failed" ELSE "ready"
        /\ run' = [run EXCEPT !.stored = "failed",
                              !.error = IF SaveFailureRaises(TRUE) THEN "OSError" ELSE @]
  /\ UNCHANGED <<data, limit, processed_data, count_matrix, similarity_matrix, call>>
  /\ UNCHANGED <<columns, recommender, memo, history, shown, startups>>

\* A recommender handed out as soon as the object exists.
ObjectExists(at) == at # "idle"

\* MovieRecommender(movies_df) has returned: __init__ ran to its end.
ConstructorReturned(at) == at = "done"

\* initialize_recommender returns the engine (app.py line 272), which
\* st.cache_resource keeps for every later run of the page.
InitializeRecommender ==
  /\ recommender = "uninit"
  /\ ConstructorReturned(pc)
  /\ recommender' = "engine"
  /\ UNCHANGED engine_vars
  /\ UNCHANGED <<columns, pc, disk, memo, history, run, shown, startups>>

\* initialize_recommender catches what the constructor raised and returns
\* None (app.py lines 273-276).
InitializeFailed ==
  /\ recommender = "uninit"
  /\ pc = "raised"
  /\ recommender' = "none"
  /\ shown' = "init_error"
  /\ UNCHANGED engine_vars
  /\ UNCHANGED <<columns, pc, disk, memo, history, run, startups>>

\* main with no recommender (app.py lines 302-304): the page reports that
\* the system failed to initialize and returns.
ReportNotReady ==
  /\ recommender = "none"
  /\ shown' = "not_ready"
  /\ UNCHANGED engine_vars
  /\ UNCHANGED <<columns, pc, disk, recommender, memo, history, run, startups>>

\* ------------------------------------------------------- the query memo
\* The memo of find_similar_movies is a sequence of entries [key, value],
\* least recently used first.
Cached(m, key) == \E i \in DOMAIN m : m[i].key = key

\* A lookup that answers with the oldest entry, whatever the key.
LookupOldest(m, key) == m[1].value

Lookup(m, key) == m[CHOOSE i \in DOMAIN m : m[i].key = key].value

\* A bounded memo that evicts its oldest insertion, whatever was used since.
RECURSIVE Without(_, _)
Without(m, key) ==
  IF m = << >> THEN << >>
  ELSE IF Head(m).key = key THEN Without(Tail(m), key)
  ELSE <<Head(m)>> \o Without(Tail(m), key)

fifo_cache(m, key, value, capacity) ==
  IF Cached(m, key) THEN m
  ELSE LET appended == Append(m, [key |-> key, value |-> value])
       IN IF Len(appended) > capacity THEN Tail(appended) ELSE appended

\* functools.lru_cache(maxsize): a hit makes its entry the most recent one, a
\* miss adds an entry and, past maxsize, drops the least recently used one.
lru_cache(m, key, value, capacity) ==
  LET appended == Append(Without(m, key), [key |-> key, value |-> value])
  IN IF Len(appended) > capacity THEN Tail(appended) ELSE appended

\* main with a recommender and a new search (app.py lines 306-328), through
\* show_recommendations to recommender.find_similar_movies(title, n): the
\* memo answers, or the body of find_similar_movies runs and its result is kept.
Query(title, n) ==
  /\ recommender = "engine"
  /\ Len(history) < MaxCalls
  /\ LET key == <<title, n>>
         value == IF Cached(memo, key) THEN Lookup(memo, key)
                  ELSE find_similar_movies(title, processed_data, similarity_matrix, n)
     IN /\ memo' = lru_cache(memo, key, value, maxsize)
        /\ history' = Append(history, key)
        /\ call' = [made |-> TRUE, title |-> title, max_recommendations |-> n,
                    data |-> processed_data, out |-> value]
        /\ shown' = IF value.recommendations = << >> THEN "no_movies" ELSE "results"
  /\ UNCHANGED <<data, limit, status, processed_data, count_matrix, similarity_matrix>>
  /\ UNCHANGED <<columns, pc, disk, recommender, run, startups>>

\* The process ends and a new one starts: nothing in memory survives, the
\* cache directory does.
Restart ==
  /\ recommender # "uninit"
  /\ startups < MaxStartups
  /\ startups' = startups + 1
  /\ data' = << >>
  /\ status' = "new"
  /\ processed_data' = << >>
  /\ count_matrix' = << >>
  /\ similarity_matrix' = << >>
  /\ call' = NoCall
  /\ pc' = "idle"
  /\ recommender' = "uninit"
  /\ memo' = << >>
  /\ history' = << >>
  /\ run' = NoRun
  /\ shown' = ""
  /\ UNCHANGED <<limit, columns, disk>>

NextApp ==
  \/ Construct
  \/ InitializeCacheDir
  \/ LoadSimilarityMatrix
  \/ LoadProcessedData
  \/ ProcessData
  \/ SaveSimilarityMatrix
  \/ SaveProcessedData
  \/ InitializeRecommender
  \/ InitializeFailed
  \/ ReportNotReady
  \/ \E title \in AppQueries, n \in AppCounts : Query(title, n)
  \/ Restart

SpecApp == InitApp /\ [][NextApp]_vars

\* ------------------------------------------------------ required fields
\* C12: a build of a catalog frame that lacks any of the five fields (title,
\* year, genres, rating, votes) fails and yields no matrix.
C12_AbsentFieldFailsBuild ==
  (pc = "schema" /\ status # "new" /\ CatalogFields \ columns # {}) =>
    status = "failed" /\ similarity_matrix = << >> /\ processed_data = << >>

\* C23: once create_similarity_matrix is over, with a matrix or with an
\* error, the frame the caller passed has no column it did not have before.
C23_CallerFrameUnchanged ==
  (pc = "schema" /\ status # "new") => columns \subseteq CatalogFields

\* ------------------------------------------------- start-up and the cache
\* What a build of the catalog of this start yields.
FreshBuild ==
  create_similarity_matrix(data, limit)

\* What find_similar_movies computes for the call on the given artifacts.
Answer(frame, matrix) ==
  find_similar_movies(call.title, frame, matrix, call.max_recommendations)

\* C11: once the build has failed (empty corpus after filtering, or empty
\* vocabulary) the constructor has raised, the application holds no engine,
\* find_similar_movies is never called and nothing but the failure to
\* initialize is reported.
C11_FailedBuildServesNothing ==
  run.error = "ValueError" =>
    /\ pc = "raised" /\ status = "failed"
    /\ recommender # "engine"
    /\ ~call.made /\ history = << >> /\ memo = << >>
    /\ shown \in {"", "init_error", "not_ready"}
    /\ recommender = "none" => shown # ""

C11_Witness ==
  /\ run.error = "ValueError" /\ FreshBuild.raised
  /\ recommender = "none" /\ shown = "not_ready"

\* C13: when both cache files load, nothing is built or stored, the
\* attributes are what the files hold whatever catalog was passed, and
\* queries are answered from them.
C13_CacheHitSkipsRebuild ==
  run.loaded = "hit" =>
    /\ pc = "done" /\ ~run.built /\ run.stored = "no"
    /\ disk.sim.state = "ok" /\ disk.data.state = "ok"
    /\ similarity_matrix = disk.sim.content /\ processed_data = disk.data.content
    /\ call.made => call.out = Answer(disk.data.content, disk.sim.content)

\* A cache of the older catalog serves a query although the catalog of this
\* start builds to something else, or does not build at all.
C13_Witness ==
  /\ run.loaded = "hit" /\ call.made /\ Recs # << >>
  /\ processed_data = OldBuild.data /\ similarity_matrix = OldBuild.similarity_matrix
  /\ FreshBuild.raised

\* C14: after a cache load failure both attributes are the build of the
\* catalog, a store was attempted before the constructor returned, and a
\* failed store leaves the constructor returning normally with queries
\* answered from the attributes built.
C14_MissRebuildsStoreNotFatal ==
  /\ (run.loaded = "miss" /\ pc \in {"save_sim", "save_data", "done"}) =>
       LET built == FreshBuild
       IN /\ run.built /\ ~built.raised
          /\ processed_data = built.data
          /\ similarity_matrix = built.similarity_matrix
          /\ call.made => call.out = Answer(built.data, built.similarity_matrix)
  /\ (run.loaded = "miss" /\ pc = "done") => run.stored \in {"ok", "failed"}
  /\ run.stored = "failed" => pc = "done" /\ status = "ready" /\ run.error = ""
  /\ (run.loaded = "miss" /\ call.made) => pc = "done"

C14_Witness ==
  /\ run.loaded = "miss" /\ run.stored = "failed"
  /\ recommender = "engine" /\ call.made /\ Recs # << >>

\* C15: the constructor raises only when the catalog cannot be built: no
\* failure to create the cache directory, to read or to write a cache file
\* leaves it.
C15_NoCacheErrorLeavesConstructor ==
  pc = "raised" => run.error = "ValueError" /\ FreshBuild.raised

\* ------------------------------------------------------- memo and snapshot
Used(key) == \E i \in DOMAIN history : history[i] = key

FirstUse(key) == CHOOSE i \in DOMAIN history :
                   history[i] = key /\ \A j \in 1..(i - 1) : history[j] # key

LastUse(key) == CHOOSE i \in DOMAIN history :
                  history[i] = key /\ \A j \in (i + 1)..Len(history) : history[j] # key

\* C16: the memo never holds more than its capacity, its entries are keyed
\* by distinct (title, max_results) pairs that were asked, least recently
\* used first, and a key asked but no longer held was evicted from a full
\* memo and was used less recently than every key held.
C16_MemoBoundedLRU ==
  /\ Len(memo) <= maxsize /\ maxsize <= lru_maxsize
  /\ \A i \in DOMAIN memo : memo[i].key \in Keys /\ Used(memo[i].key)
  /\ \A i, j \in DOMAIN memo : i < j => LastUse(memo[i].key) < LastUse(memo[j].key)
  /\ \A key \in Keys :
       (Used(key) /\ ~Cached(memo, key)) =>
         /\ Len(memo) = maxsize
         /\ \A i \in DOMAIN memo : LastUse(key) < LastUse(memo[i].key)
  /\ \A i \in DOMAIN memo :
       memo[i].value = find_similar_movies(memo[i].key[1], processed_data,
                                           similarity_matrix, memo[i].key[2])

\* A key was evicted although a key held was first asked before it: the
\* entry dropped was not the oldest insertion.
C16_Witness ==
  \E key \in Keys :
    /\ Used(key) /\ ~Cached(memo, key)
    /\ \E i \in DOMAIN memo : FirstUse(memo[i].key) < FirstUse(key)

\* C17: while the application holds an engine its constructor has returned,
\* both attributes are assigned, both from the cache or both from one build,
\* every call read them as they are, and no step assigns them again.
C17_CompleteSnapshot ==
  /\ [](recommender = "engine" =>
          /\ pc = "done"
          /\ processed_data # << >> /\ similarity_matrix # << >>
          /\ (run.loaded = "hit") # run.built
          /\ call.made => call.data = processed_data)
  /\ [][(recommender = "engine" /\ recommender' = "engine") =>
          UNCHANGED <<processed_data, similarity_matrix>>]_vars

\* Queries are served by an engine whose constructor had loaded the
\* similarity matrix from the cache, failed to load the frame, and rebuilt.
C17_Witness ==
  /\ recommender = "engine" /\ run.partly /\ run.built
  /\ Len(history) >= 2

\* ---------------------------------------------------- penalty and bonus
\* The row the call reads as its source: source_movie = data.iloc[movie_idx].
SourcePosition == call.out.movie_idx

SourceItem == call.data[SourcePosition]

\* The rows before position idx that are candidates: not the source, and not
\* skipped for carrying the source's genres.
ScoredBefore(idx) ==
  { j \in 1..(idx - 1) :
      /\ j # SourcePosition
      /\ ~(/\ Len(recommendations) >= call.max_recommendations \div 2
            /\ Genres(call.data[j]) = Genres(SourceItem)) }

\* How many of the rows in `rows` carry genre g.
Carrying(rows, g) == Cardinality({ j \in rows : g \in Genres(call.data[j]) })

\* 0.05 per earlier candidate and shared genre, in millionths.
RepetitionPenalty(r) ==
  SumOver(r.genres, [g \in r.genres |-> Carrying(ScoredBefore(r.idx), g) * 50000])

\* C21: the penalty of a returned candidate is 0.05 times, summed over its
\* genres, the number of candidates scored before it (the source and skipped
\* items left out) that carry the genre, and the score is the weighted sum of
\* the other terms less that penalty at full weight; it is 0 for the first
\* candidate scored.
C21_PenaltyCountsEarlierCandidates ==
  Ranked =>
    \A i \in DOMAIN Recs :
      /\ Recs[i].similarity_score
           = ScoreWith(Recs[i], seen_genres, << >>)
               - RepetitionPenalty(Recs[i])
                   * (w_base + w_diversity + w_rating + w_popularity + w_era)
      /\ ScoredBefore(Recs[i].idx) = {} => RepetitionPenalty(Recs[i]) = 0

\* A returned candidate pays for two earlier appearances of its genres.
C21_Witness ==
  Ranked /\ \E i \in DOMAIN Recs : RepetitionPenalty(Recs[i]) >= 100000

\* C22: the diversity bonus that enters the score of a returned candidate
\* lies between 0 and 0.3.
C22_DiversityBonusInRange ==
  Ranked =>
    LET candidates == AllCandidates
    IN \A k \in DOMAIN candidates :
         (\E i \in DOMAIN Recs : Recs[i].idx = candidates[k].idx) =>
           /\ DiversityApplied(candidates, k) >= 0
           /\ DiversityApplied(candidates, k) <= 300000

\* ------------------------------------------------------ the genre filter
\* The list the same call returns when asked for m recommendations.
RecsFor(m) ==
  get_recommendations(call.title, call.data, similarity_matrix, min_similarity, m).recommendations

C24_IndexAddressesResolvedItem ==
  /\ status = "ready" =>
       /\ Len(similarity_matrix) = Len(processed_data)
       /\ \A k \in DOMAIN similarity_matrix :
            Len(similarity_matrix[k]) = Len(processed_data)
  /\ Resolved =>
       /\ call.out.movie_idx \in DOMAIN call.data
       /\ call.out.movie_idx \in DOMAIN similarity_matrix
       /\ call.data[call.out.movie_idx].title = call.out.matched_title
       /\ call.data[call.out.movie_idx].label = call.out.movie_idx

\* ---------------------------------------------------- cache generations
\* The matrix and the frame are the two results of one build.
SameBuild(matrix, frame) ==
  \E f \in StoredFrames :
    LET built == BuildOf(f)
    IN ~built.raised /\ matrix = built.similarity_matrix /\ frame = built.data

\* C25: whenever _load_cache succeeded, the matrix and the frame it loaded
\* were written by one build.
C25_LoadedPairFromOneBuild ==
  run.loaded = "hit" => SameBuild(similarity_matrix, processed_data)

\* ------------------------------------------------- memo and direct call
\* An unmemoized get_recommendations call on what the engine holds.
Direct(title, n) ==
  get_recommendations(title, processed_data, similarity_matrix, min_similarity, n)

\* C27: every find_similar_movies call, answered by the memo or computed,
\* returns the list get_recommendations returns for the same title and count
\* on the engine's frame and matrix, the empty list of a failed computation
\* included.
C27_MemoizedEqualsDirect ==
  call.made =>
    call.out.recommendations
      = Direct(call.title, call.max_recommendations).recommendations

\* The last call repeats an earlier one and is answered by the memo after
\* another key was evicted; its computation had raised an index error and
\* the list is empty.
C27_Witness ==
  /\ call.made /\ Len(history) >= 2
  /\ \E i \in 1..(Len(history) - 1) : history[i] = history[Len(history)]
  /\ \E key \in Keys : Used(key) /\ ~Cached(memo, key)
  /\ call.out.raised = "IndexError" /\ Recs = << >>

====

